---- MODULE Spec2Model ----
(***************************************************************************)
(* NodeAFK (src/NodeAFK.js): an EventEmitter that polls the system idle    *)
(* time, keeps an online/away status and emits status and timed events.    *)
(*                                                                         *)
(* Strings are sequences of one-character strings, so that parseEventName  *)
(* (a regular expression match and Number()) and the template literal that *)
(* builds the name of a timed event are computed as the code computes them. *)
(* A poll tick is a sequence of steps (pc is the line pollStatus is at);   *)
(* JavaScript runs it to completion, so the public methods are called by   *)
(* the application only while pc = "idle", or by a listener from inside    *)
(* an emission (specification SpecReentrant).                              *)
(***************************************************************************)
EXTENDS Integers, Sequences, FiniteSets, TLC

\* ------------------------------------------------------------------ bounds
MaxTime == 1
MaxIdle == 2
MaxRegs == 2

\* --------------------------------------------------------------- constants
STATUS_AWAY == <<"a", "w", "a", "y">>
STATUS_ONLINE == <<"o", "n", "l", "i", "n", "e">>
Statuses == {STATUS_AWAY, STATUS_ONLINE}

\* values that line 43 rejects: not in the list [STATUS_AWAY, STATUS_ONLINE]
InvalidStatuses == {<<"i", "d", "l", "e">>, <<"A", "w", "a", "y">>}

\* the JavaScript value undefined, where a number is expected
UNDEF == -1
\* the JavaScript value undefined, where a string is expected
NoString == <<>>

\* the constructor's inactivityDuration argument
InactivityDuration == 1

\* ----------------------------------------------------------------- strings
DigitChars == <<"0", "1", "2", "3", "4", "5", "6", "7", "8", "9">>
Digits == {DigitChars[i] : i \in 1..10}
DigitVal(c) == (CHOOSE i \in 1..10 : DigitChars[i] = c) - 1

\* Number(digits) for a non-empty string of decimal digits
RECURSIVE Number(_)
Number(ds) ==
  IF Len(ds) = 0 THEN 0
  ELSE 10 * Number(SubSeq(ds, 1, Len(ds) - 1)) + DigitVal(ds[Len(ds)])

\* `${n}` for a non-negative integer n
RECURSIVE NumberToString(_)
NumberToString(n) ==
  IF n < 10 THEN <<DigitChars[n + 1]>>
  ELSE NumberToString(n \div 10) \o <<DigitChars[(n % 10) + 1]>>

\* `${status}:${duration}`
TimedEventName(status, duration) == status \o <<":">> \o NumberToString(duration)

EvStatusChange == <<"s", "t", "a", "t", "u", "s", "-", "c", "h", "a", "n", "g", "e">>
EvStatusAway == <<"s", "t", "a", "t", "u", "s", ":">> \o STATUS_AWAY
EvStatusOnline == <<"s", "t", "a", "t", "u", "s", ":">> \o STATUS_ONLINE

\* the event names the application subscribes to
\* ("status-change", "status:away", "away:0", "away:01", "online:1")
NameAway0 == STATUS_AWAY \o <<":", "0">>
NameAway01 == STATUS_AWAY \o <<":", "0", "1">>
NameOnline1 == STATUS_ONLINE \o <<":", "1">>
UserNames ==
  { EvStatusChange, EvStatusAway, NameAway0, NameAway01, NameOnline1 }

Listeners == {"l1", "l2"}

\* the (event name, listener) pairs the application passes to on() and off():
\* l1 with every name, l2 with "away:0"
Subscriptions ==
  (UserNames \X {"l1"}) \cup {<<NameAway0, "l2">>}

\* ------------------------------------------------------------ parseEventName
HasPrefix(s, p) == Len(s) >= Len(p) /\ SubSeq(s, 1, Len(p)) = p
Rest(s, p) == SubSeq(s, Len(p) + 1, Len(s))

\* group 2 of the expression: absent, or ":" followed by one or more digits
IsDurationSuffix(r) ==
  Len(r) >= 2 /\ r[1] = ":" /\ \A i \in 2..Len(r) : r[i] \in Digits

\* eventName.match(/^(away|online)(:([0-9]+))?$/) is not null
Matches(eventName) ==
  \E p \in Statuses :
    HasPrefix(eventName, p)
      /\ (Rest(eventName, p) = <<>> \/ IsDurationSuffix(Rest(eventName, p)))

\* eventNameParts[1]
MatchGroup1(eventName) == CHOOSE p \in Statuses : HasPrefix(eventName, p)

\* eventNameParts[3]: the digits, or undefined
MatchGroup3(eventName) ==
  LET r == Rest(eventName, MatchGroup1(eventName))
  IN IF r = <<>> THEN NoString ELSE SubSeq(r, 2, Len(r))

parseEventName(eventName) ==
  IF ~Matches(eventName)
  THEN [isTimedEvent |-> FALSE, status |-> NoString, duration |-> UNDEF]
  ELSE IF MatchGroup3(eventName) = NoString
       THEN [isTimedEvent |-> FALSE, status |-> eventName, duration |-> UNDEF]
       ELSE [isTimedEvent |-> TRUE, status |-> MatchGroup1(eventName),
             duration |-> Number(MatchGroup3(eventName))]

\* ------------------------------------------------------------------- state
VARIABLES
  currentStatus,          \* this.currentStatus
  userLastCameOnlineAt,   \* this.userLastCameOnlineAt (UNDEF or a time)
  pollIntervalId,         \* this.pollIntervalId (0: undefined, else a timer id)
  timedEvents,            \* this.timedEvents
  listeners,              \* the EventEmitter's listeners, by event name
  activeTimers,           \* the interval timers that have not been cleared
  now,                    \* Date.now()
  pc,                     \* where pollStatus is ("idle": not running)
  idleTime,               \* const idleTime of the running tick
  iter,                   \* the entries forEach has still to visit
  emitName,               \* the event whose listeners are being called
  pending,                \* the listeners emit() has still to call
  emitted,                \* history: the emit() calls of the running tick
  invoked,                \* history: the listener calls of the running tick
  tickStart,              \* history: the status when the running tick began
  inert,                  \* history: destroy() ran and init() has not since
  wiped,                  \* history: destroy() removed a subscription and on() has not run since
  live,                   \* history: the (name, listener) pairs given to on() with a timed
                          \* name, less those of a (status, duration) pair that an off()
                          \* named since and those that destroy() removed
  raised                  \* history: what threw in the last step, if something did:
                          \* "setStatus", or a listener called by an emit of pollStatus
                          \* before its setStatus ("transition") or after it ("timed")

vars == <<currentStatus, userLastCameOnlineAt, pollIntervalId, timedEvents,
          listeners, activeTimers, now, pc, idleTime, iter, emitName, pending,
          emitted, invoked, tickStart, inert, wiped, live, raised>>

modelVars == <<currentStatus, userLastCameOnlineAt, pollIntervalId, timedEvents,
               listeners, activeTimers>>
tickVars == <<pc, idleTime, iter, emitName, pending, emitted, invoked, tickStart>>

NoPayload == <<>>
NoThrow == "none"
NoListeners == [n \in UserNames |-> <<>>]

ListenersOf(ls, name) == IF name \in DOMAIN ls THEN ls[name] ELSE <<>>

RECURSIVE SumLen(_, _)
SumLen(ls, names) ==
  IF names = {} THEN 0
  ELSE LET n == CHOOSE x \in names : TRUE
       IN Len(ls[n]) + SumLen(ls, names \ {n})

TotalRegs == SumLen(listeners, DOMAIN listeners)

\* -------------------------------------------------------------- setStatus
\* line 47: the value assigned to userLastCameOnlineAt
LastOnlineFor_Always(status, t) == t
LastOnlineFor(status, t) == IF status = STATUS_ONLINE THEN t ELSE UNDEF

\* ----------------------------------------------------------- constructor
Init ==
  /\ currentStatus \in Statuses
  /\ userLastCameOnlineAt = LastOnlineFor(currentStatus, 0)
  /\ pollIntervalId = 0
  /\ timedEvents = <<>>
  /\ listeners = NoListeners
  /\ activeTimers = {}
  /\ now = 0
  /\ pc = "idle"
  /\ idleTime = 0
  /\ iter = <<>>
  /\ emitName = NoString
  /\ pending = <<>>
  /\ emitted = <<>>
  /\ invoked = <<>>
  /\ tickStart = NoString
  /\ inert = FALSE
  /\ wiped = FALSE
  /\ live = {}
  /\ raised = NoThrow

\* setStatus(status) without the assignment of line 47
SetStatus_NoStamp(status) ==
  /\ pc = "idle"
  /\ UNCHANGED userLastCameOnlineAt
  /\ currentStatus' = status
  /\ UNCHANGED <<pollIntervalId, timedEvents, listeners, activeTimers, now,
                 inert, wiped, live>>
  /\ UNCHANGED tickVars
  /\ raised' = NoThrow

\* setStatus(status) called by the application with a valid status
SetStatus(status) ==
  /\ pc = "idle"
  /\ userLastCameOnlineAt' = LastOnlineFor(status, now)
  /\ currentStatus' = status
  /\ UNCHANGED <<pollIntervalId, timedEvents, listeners, activeTimers, now,
                 inert, wiped, live>>
  /\ UNCHANGED tickVars
  /\ raised' = NoThrow

\* setStatus(status) that assigns (lines 47-48) before it validates
SetStatusInvalid_AssignsFirst(status) ==
  /\ pc = "idle"
  /\ status \notin Statuses
  /\ userLastCameOnlineAt' = LastOnlineFor(status, now)
  /\ currentStatus' = status
  /\ raised' = "setStatus"
  /\ UNCHANGED <<pollIntervalId, timedEvents, listeners, activeTimers, now,
                 inert, wiped, live>>
  /\ UNCHANGED tickVars

\* setStatus(status) called by the application with a status that is not in
\* the list of line 43: line 44 throws, lines 47-48 are not reached
SetStatusInvalid(status) ==
  /\ pc = "idle"
  /\ status \notin Statuses
  /\ raised' = "setStatus"
  /\ UNCHANGED <<currentStatus, userLastCameOnlineAt, pollIntervalId, timedEvents,
                 listeners, activeTimers, now, inert, wiped, live>>
  /\ UNCHANGED tickVars

\* ------------------------------------------------------- init and destroy
\* lines 74-76: clearInterval(this.pollIntervalId) if it is set
ClearInterval_Leak(timers, id) == timers
ClearInterval(timers, id) == IF id # 0 THEN timers \ {id} ELSE timers

\* line 80: this.removeAllListeners()
removeAllListeners_Keep(ls) == ls
removeAllListeners(ls) == [n \in DOMAIN ls |-> <<>>]

HasSubscription == timedEvents # <<>> \/ TotalRegs > 0

\* destroy() without the call of clearInterval
Destroy_KeepsTimer ==
  /\ pc = "idle"
  /\ timedEvents' = <<>>
  /\ listeners' = removeAllListeners(listeners)
  /\ inert' = TRUE
  /\ wiped' = (wiped \/ HasSubscription)
  /\ live' = {}
  /\ UNCHANGED <<currentStatus, userLastCameOnlineAt, pollIntervalId, now,
                 activeTimers>>
  /\ UNCHANGED tickVars
  /\ raised' = NoThrow

\* destroy() called by the application
Destroy ==
  /\ pc = "idle"
  /\ activeTimers' = ClearInterval(activeTimers, pollIntervalId)
  /\ timedEvents' = <<>>
  /\ listeners' = removeAllListeners(listeners)
  /\ inert' = TRUE
  /\ wiped' = (wiped \/ HasSubscription)
  /\ live' = {}
  /\ UNCHANGED <<currentStatus, userLastCameOnlineAt, pollIntervalId, now>>
  /\ UNCHANGED tickVars
  /\ raised' = NoThrow

\* setInterval() returns a timer that is neither running nor the one the
\* instance still refers to
NewTimer(timers, id) == CHOOSE t \in 1..(Cardinality(timers) + 2) : t \notin timers \cup {id}

\* init() that also sets the status online, as the constructor does
InitCall_ResetsStatus ==
  /\ pc = "idle"
  /\ pollIntervalId' = NewTimer(activeTimers, pollIntervalId)
  /\ activeTimers' = ClearInterval(activeTimers, pollIntervalId) \cup {pollIntervalId'}
  /\ timedEvents' = <<>>
  /\ listeners' = removeAllListeners(listeners)
  /\ inert' = FALSE
  /\ wiped' = (wiped \/ HasSubscription)
  /\ live' = {}
  /\ currentStatus' = STATUS_ONLINE
  /\ userLastCameOnlineAt' = LastOnlineFor(STATUS_ONLINE, now)
  /\ UNCHANGED now
  /\ UNCHANGED tickVars
  /\ raised' = NoThrow

\* init(): destroy(), then setInterval()
InitCall ==
  /\ pc = "idle"
  /\ pollIntervalId' = NewTimer(activeTimers, pollIntervalId)
  /\ activeTimers' = ClearInterval(activeTimers, pollIntervalId) \cup {pollIntervalId'}
  /\ timedEvents' = <<>>
  /\ listeners' = removeAllListeners(listeners)
  /\ inert' = FALSE
  /\ wiped' = (wiped \/ HasSubscription)
  /\ live' = {}
  /\ UNCHANGED <<currentStatus, userLastCameOnlineAt, now>>
  /\ UNCHANGED tickVars
  /\ raised' = NoThrow

\* ------------------------------------------------------------- on and off
\* on() without the test of line 92: every name gets an entry of timedEvents
On_AlwaysRegisters(eventName, listener) ==
  LET eventNameInfo == parseEventName(eventName) IN
  /\ pc = "idle"
  /\ TotalRegs < MaxRegs
  /\ Len(timedEvents) < MaxRegs
  /\ timedEvents' = Append(timedEvents, [status |-> eventNameInfo.status,
                                         duration |-> eventNameInfo.duration,
                                         listener |-> listener])
  /\ listeners' = [listeners EXCEPT ![eventName] = Append(@, listener)]
  /\ wiped' = FALSE
  /\ live' = IF eventNameInfo.isTimedEvent
             THEN live \cup {<<eventName, listener>>} ELSE live
  /\ UNCHANGED <<currentStatus, userLastCameOnlineAt, pollIntervalId,
                 activeTimers, now, inert>>
  /\ UNCHANGED tickVars
  /\ raised' = NoThrow

\* on(eventName, listener) called by the application
On(eventName, listener) ==
  LET eventNameInfo == parseEventName(eventName) IN
  /\ pc = "idle"
  /\ TotalRegs < MaxRegs
  /\ eventNameInfo.isTimedEvent => Len(timedEvents) < MaxRegs
  /\ timedEvents' =
       IF eventNameInfo.isTimedEvent
       THEN Append(timedEvents, [status |-> eventNameInfo.status,
                                 duration |-> eventNameInfo.duration,
                                 listener |-> listener])
       ELSE timedEvents
  /\ listeners' = [listeners EXCEPT ![eventName] = Append(@, listener)]
  /\ wiped' = FALSE
  /\ live' = IF eventNameInfo.isTimedEvent
             THEN live \cup {<<eventName, listener>>} ELSE live
  /\ UNCHANGED <<currentStatus, userLastCameOnlineAt, pollIntervalId,
                 activeTimers, now, inert>>
  /\ UNCHANGED tickVars
  /\ raised' = NoThrow

SameKey(a, b) == a.status = b.status /\ a.duration = b.duration

\* lines 113-117: the filter over this.timedEvents
FilterTimedEvents(te, info, listener) ==
  SelectSeq(te, LAMBDA timedEvent :
     /\ timedEvent.status = info.status
     /\ timedEvent.duration = info.duration
     /\ timedEvent.listener = listener)

\* EventEmitter.removeListener: removes the most recently added instance
RECURSIVE LastIndexOf(_, _)
LastIndexOf(s, x) ==
  IF Len(s) = 0 THEN 0
  ELSE IF s[Len(s)] = x THEN Len(s)
  ELSE LastIndexOf(SubSeq(s, 1, Len(s) - 1), x)

RemoveListener(s, x) ==
  LET i == LastIndexOf(s, x)
  IN IF i = 0 THEN s ELSE SubSeq(s, 1, i - 1) \o SubSeq(s, i + 1, Len(s))

Off(eventName, listener) ==
  LET eventNameInfo == parseEventName(eventName) IN
  /\ pc = "idle"
  /\ timedEvents' =
       IF eventNameInfo.isTimedEvent
       THEN FilterTimedEvents(timedEvents, eventNameInfo, listener)
       ELSE timedEvents
  /\ listeners' = [listeners EXCEPT ![eventName] = RemoveListener(@, listener)]
  /\ live' = IF eventNameInfo.isTimedEvent
             THEN {sub \in live : ~SameKey(parseEventName(sub[1]), eventNameInfo)}
             ELSE live
  /\ UNCHANGED <<currentStatus, userLastCameOnlineAt, pollIntervalId,
                 activeTimers, now, inert, wiped>>
  /\ UNCHANGED tickVars
  /\ raised' = NoThrow

\* -------------------------------------------------------------- pollStatus
\* emit(name, payload): the listeners registered now are the ones called
BeginEmit(name, payload) ==
  /\ emitName' = name
  /\ pending' = ListenersOf(listeners, name)
  /\ emitted' = Append(emitted, <<name, payload>>)

\* line 130
AwayGuard_Strict(status, idle) == status = STATUS_ONLINE /\ idle > InactivityDuration
AwayGuard(status, idle) == status = STATUS_ONLINE /\ idle >= InactivityDuration

\* line 141
OnlineGuard_Loose(status, idle) == status = STATUS_AWAY /\ idle <= InactivityDuration
OnlineGuard(status, idle) == status = STATUS_AWAY /\ idle < InactivityDuration

\* willEmitTimedEvent without the comparisons of the status with the entry's
WillEmitTimedEvent_AnyStatus(entry, status, idle, lastOnline, t) ==
  \/ /\ status = STATUS_AWAY
     /\ (idle - InactivityDuration) >= entry.duration
  \/ /\ status = STATUS_ONLINE
     /\ lastOnline # UNDEF
     /\ t - lastOnline >= entry.duration

\* lines 155-169: willEmitTimedEvent
WillEmitTimedEvent(entry, status, idle, lastOnline, t) ==
  \/ /\ status = STATUS_AWAY
     /\ status = entry.status
     /\ (idle - InactivityDuration) >= entry.duration
  \/ /\ status = STATUS_ONLINE
     /\ status = entry.status
     /\ lastOnline # UNDEF
     /\ t - lastOnline >= entry.duration

\* line 141: the second if; when its guard fails, forEach begins (line 152)
Line141(status, idle) ==
  IF OnlineGuard(status, idle)
  THEN /\ pc' = "L142"
       /\ BeginEmit(EvStatusChange, <<STATUS_AWAY, STATUS_ONLINE>>)
       /\ UNCHANGED iter
  ELSE /\ pc' = "L152"
       /\ iter' = timedEvents
       /\ UNCHANGED <<emitName, pending, emitted>>

\* PollStart with setStatus(STATUS_AWAY) moved before the two emissions
PollStart_CommitFirst ==
  /\ pc = "idle"
  /\ activeTimers # {}
  /\ idleTime' \in 0..MaxIdle
  /\ tickStart' = currentStatus
  /\ IF AwayGuard(currentStatus, idleTime')
     THEN /\ pc' = "L131"
          /\ BeginEmit(EvStatusChange, <<STATUS_ONLINE, STATUS_AWAY>>)
          /\ userLastCameOnlineAt' = LastOnlineFor(STATUS_AWAY, now)
          /\ currentStatus' = STATUS_AWAY
          /\ UNCHANGED iter
     ELSE /\ Line141(currentStatus, idleTime')
          /\ UNCHANGED <<currentStatus, userLastCameOnlineAt>>
  /\ UNCHANGED invoked
  /\ UNCHANGED <<pollIntervalId, timedEvents, listeners, activeTimers>>
  /\ UNCHANGED <<now, inert, wiped, live>>
  /\ raised' = NoThrow

\* the interval timer fires: lines 128-134, and line 141 when the first
\* guard fails
PollStart ==
  /\ pc = "idle"
  /\ activeTimers # {}
  /\ idleTime' \in 0..MaxIdle
  /\ tickStart' = currentStatus
  /\ IF AwayGuard(currentStatus, idleTime')
     THEN /\ pc' = "L131"
          /\ BeginEmit(EvStatusChange, <<STATUS_ONLINE, STATUS_AWAY>>)
          /\ UNCHANGED iter
     ELSE Line141(currentStatus, idleTime')
  /\ UNCHANGED invoked
  /\ UNCHANGED modelVars
  /\ UNCHANGED <<now, inert, wiped, live>>
  /\ raised' = NoThrow

\* emit() calls the next listener, which only looks at the status
Deliver ==
  /\ pending # <<>>
  /\ invoked' = Append(invoked, [listener |-> Head(pending), event |-> emitName,
                                 seen |-> currentStatus])
  /\ pending' = Tail(pending)
  /\ UNCHANGED <<pc, idleTime, iter, emitName, emitted, tickStart>>
  /\ UNCHANGED modelVars
  /\ UNCHANGED <<now, inert, wiped, live>>
  /\ raised' = NoThrow

\* emit() calls the next listener, which calls destroy()
DeliverDestroy ==
  /\ pending # <<>>
  /\ invoked' = Append(invoked, [listener |-> Head(pending), event |-> emitName,
                                 seen |-> currentStatus])
  /\ pending' = Tail(pending)
  /\ activeTimers' = ClearInterval(activeTimers, pollIntervalId)
  /\ timedEvents' = <<>>
  /\ listeners' = removeAllListeners(listeners)
  /\ inert' = TRUE
  /\ wiped' = (wiped \/ HasSubscription)
  /\ live' = {}
  /\ UNCHANGED <<currentStatus, userLastCameOnlineAt, pollIntervalId, now>>
  /\ UNCHANGED <<pc, idleTime, iter, emitName, emitted, tickStart>>
  /\ raised' = NoThrow

\* the lines of pollStatus that run between the first emit of a transition
\* and its setStatus
BeforeCommit == {"L131", "L136", "L142", "L147"}

\* emit() calls the next listener, which throws, and pollStatus goes on
DeliverThrow_Swallowed ==
  /\ pending # <<>>
  /\ raised' = IF pc \in BeforeCommit THEN "transition" ELSE "timed"
  /\ invoked' = Append(invoked, [listener |-> Head(pending), event |-> emitName,
                                 seen |-> currentStatus])
  /\ pending' = Tail(pending)
  /\ UNCHANGED <<pc, idleTime, iter, emitName, emitted, tickStart>>
  /\ UNCHANGED modelVars
  /\ UNCHANGED <<now, inert, wiped, live>>

\* emit() calls the next listener, which throws: the exception leaves emit()
\* and pollStatus, so no later statement of this tick runs
DeliverThrow ==
  /\ pending # <<>>
  /\ raised' = IF pc \in BeforeCommit THEN "transition" ELSE "timed"
  /\ pc' = "idle"
  /\ idleTime' = 0
  /\ iter' = <<>>
  /\ emitName' = NoString
  /\ pending' = <<>>
  /\ emitted' = <<>>
  /\ invoked' = <<>>
  /\ tickStart' = NoString
  /\ UNCHANGED modelVars
  /\ UNCHANGED <<now, inert, wiped, live>>

\* line 136
EmitStatusAway ==
  /\ pc = "L131" /\ pending = <<>>
  /\ pc' = "L136"
  /\ BeginEmit(EvStatusAway, NoPayload)
  /\ UNCHANGED <<idleTime, iter, invoked, tickStart>>
  /\ UNCHANGED modelVars
  /\ UNCHANGED <<now, inert, wiped, live>>
  /\ raised' = NoThrow

\* line 138, then line 141
CommitAway ==
  /\ pc = "L136" /\ pending = <<>>
  /\ userLastCameOnlineAt' = LastOnlineFor(STATUS_AWAY, now)
  /\ currentStatus' = STATUS_AWAY
  /\ Line141(currentStatus', idleTime)
  /\ UNCHANGED <<pollIntervalId, timedEvents, listeners, activeTimers>>
  /\ UNCHANGED <<idleTime, invoked, tickStart>>
  /\ UNCHANGED <<now, inert, wiped, live>>
  /\ raised' = NoThrow

\* line 147
EmitStatusOnline ==
  /\ pc = "L142" /\ pending = <<>>
  /\ pc' = "L147"
  /\ BeginEmit(EvStatusOnline, NoPayload)
  /\ UNCHANGED <<idleTime, iter, invoked, tickStart>>
  /\ UNCHANGED modelVars
  /\ UNCHANGED <<now, inert, wiped, live>>
  /\ raised' = NoThrow

\* line 149, then forEach begins (line 152)
CommitOnline ==
  /\ pc = "L147" /\ pending = <<>>
  /\ pc' = "L152"
  /\ userLastCameOnlineAt' = LastOnlineFor(STATUS_ONLINE, now)
  /\ currentStatus' = STATUS_ONLINE
  /\ iter' = timedEvents
  /\ UNCHANGED <<pollIntervalId, timedEvents, listeners, activeTimers>>
  /\ UNCHANGED <<idleTime, emitName, pending, emitted, invoked, tickStart>>
  /\ UNCHANGED <<now, inert, wiped, live>>
  /\ raised' = NoThrow

\* lines 152-174: the callback of forEach on the next entry
EvalTimed ==
  /\ pc = "L152" /\ pending = <<>> /\ iter # <<>>
  /\ iter' = Tail(iter)
  /\ IF WillEmitTimedEvent(Head(iter), currentStatus, idleTime,
                           userLastCameOnlineAt, now)
     THEN BeginEmit(TimedEventName(Head(iter).status, Head(iter).duration), NoPayload)
     ELSE UNCHANGED <<emitName, pending, emitted>>
  /\ UNCHANGED <<pc, idleTime, invoked, tickStart>>
  /\ UNCHANGED modelVars
  /\ UNCHANGED <<now, inert, wiped, live>>
  /\ raised' = NoThrow

\* pollStatus has done all its work
TickDone == pc = "L152" /\ pending = <<>> /\ iter = <<>>

\* pollStatus returns
PollEnd ==
  /\ TickDone
  /\ pc' = "idle"
  /\ idleTime' = 0
  /\ emitName' = NoString
  /\ emitted' = <<>>
  /\ invoked' = <<>>
  /\ tickStart' = NoString
  /\ UNCHANGED <<iter, pending>>
  /\ UNCHANGED modelVars
  /\ UNCHANGED <<now, inert, wiped, live>>
  /\ raised' = NoThrow

\* time passes between two callbacks
Advance ==
  /\ pc = "idle"
  /\ now < MaxTime
  /\ now' = now + 1
  /\ UNCHANGED modelVars
  /\ UNCHANGED tickVars
  /\ UNCHANGED <<inert, wiped, live>>
  /\ raised' = NoThrow

\* ---------------------------------------------------------- specification
Next ==
  \/ \E s \in Statuses : SetStatus(s)
  \/ InitCall
  \/ Destroy
  \/ \E sub \in Subscriptions : On(sub[1], sub[2])
  \/ \E sub \in Subscriptions : Off(sub[1], sub[2])
  \/ PollStart
  \/ Deliver
  \/ EmitStatusAway
  \/ CommitAway
  \/ EmitStatusOnline
  \/ CommitOnline
  \/ EvalTimed
  \/ PollEnd
  \/ Advance

Spec == Init /\ [][Next]_vars

\* a listener may also call destroy() while it runs
NextReentrant ==
  \/ Next
  \/ DeliverDestroy

SpecReentrant == Init /\ [][NextReentrant]_vars

\* the calls of the application between two ticks, setStatus with a status
\* that line 43 rejects among them; pollStatus runs to completion, so a call
\* of the application finds the instance as such calls and the clock left it
NextCalls ==
  \/ \E s \in Statuses : SetStatus(s)
  \/ \E v \in InvalidStatuses : SetStatusInvalid(v)
  \/ InitCall
  \/ Destroy
  \/ \E sub \in Subscriptions : On(sub[1], sub[2])
  \/ \E sub \in Subscriptions : Off(sub[1], sub[2])
  \/ Advance

SpecCalls == Init /\ [][NextCalls]_vars

\* listeners may throw while pollStatus emits (the process has a handler for
\* uncaught exceptions, so the interval timer keeps firing)
NextThrow ==
  \/ Next
  \/ DeliverThrow

SpecThrow == Init /\ [][NextThrow]_vars

\* ------------------------------------------------------------------ claims
\* the number of emit() calls of `name` in the running tick
RECURSIVE CountEmitted(_, _)
CountEmitted(es, name) ==
  IF es = <<>> THEN 0
  ELSE (IF Head(es)[1] = name THEN 1 ELSE 0) + CountEmitted(Tail(es), name)

RECURSIVE CountInvoked(_, _, _)
CountInvoked(is, l, name) ==
  IF is = <<>> THEN 0
  ELSE (IF Head(is).listener = l /\ Head(is).event = name THEN 1 ELSE 0)
         + CountInvoked(Tail(is), l, name)

RECURSIVE CountIn(_, _)
CountIn(seq, x) ==
  IF seq = <<>> THEN 0
  ELSE (IF Head(seq) = x THEN 1 ELSE 0) + CountIn(Tail(seq), x)

StatusEvents == {EvStatusChange, EvStatusAway, EvStatusOnline}

\* the name is the one the template literal builds from its parsed parts
IsCanonicalTimed(name) ==
  /\ parseEventName(name).isTimedEvent
  /\ TimedEventName(parseEventName(name).status, parseEventName(name).duration) = name

\* C1: when a tick that began Online with idleTime >= inactivityDuration has
\* done its work, its first two emit() calls were status-change with
\* {previous: online, current: away} and then status:away, every listener of
\* status-change was called before any listener of status:away, and the
\* status is away; symmetrically for a tick that began Away with
\* idleTime < inactivityDuration.
C1_TransitionTick ==
  TickDone =>
    /\ (tickStart = STATUS_ONLINE /\ idleTime >= InactivityDuration) =>
         /\ Len(emitted) >= 2
         /\ emitted[1] = <<EvStatusChange, <<STATUS_ONLINE, STATUS_AWAY>>>>
         /\ emitted[2] = <<EvStatusAway, NoPayload>>
         /\ currentStatus = STATUS_AWAY
    /\ (tickStart = STATUS_AWAY /\ idleTime < InactivityDuration) =>
         /\ Len(emitted) >= 2
         /\ emitted[1] = <<EvStatusChange, <<STATUS_AWAY, STATUS_ONLINE>>>>
         /\ emitted[2] = <<EvStatusOnline, NoPayload>>
         /\ currentStatus = STATUS_ONLINE
    /\ \A i, j \in DOMAIN invoked :
         (invoked[i].event = EvStatusChange
            /\ invoked[j].event \in {EvStatusAway, EvStatusOnline}) => i < j

\* a tick went from online to away and called a listener of each event
C1_Witness ==
  /\ TickDone
  /\ tickStart = STATUS_ONLINE
  /\ currentStatus = STATUS_AWAY
  /\ \E i, j \in DOMAIN invoked :
       invoked[i].event = EvStatusChange /\ invoked[j].event = EvStatusAway

\* C2 (as claimed): a call off("<status>:<d>", listener) leaves no entry of
\* timedEvents with that status and that duration.
C2_OffRemovesKey ==
  [][\A sub \in Subscriptions :
       (parseEventName(sub[1]).isTimedEvent /\ Off(sub[1], sub[2])) =>
         \A i \in DOMAIN timedEvents' :
           ~(/\ timedEvents'[i].status = parseEventName(sub[1]).status
             /\ timedEvents'[i].duration = parseEventName(sub[1]).duration)]_vars

\* C3 (as claimed): when a tick has done its work with the status away, every
\* listener that was subscribed to a name "away:<d>", and whose subscription
\* no off() of that (status, duration) pair and no destroy() has removed, was
\* called for that name in this tick if idleTime - inactivityDuration >= d.
C3_AwayLevelTriggered ==
  TickDone =>
    \A sub \in live :
      (/\ IsCanonicalTimed(sub[1])
       /\ parseEventName(sub[1]).status = STATUS_AWAY
       /\ currentStatus = STATUS_AWAY
       /\ idleTime - InactivityDuration >= parseEventName(sub[1]).duration) =>
        CountInvoked(invoked, sub[2], sub[1]) >= 1

\* C4 (as claimed): when a tick has done its work with the status online,
\* every listener that was subscribed to a name "online:<d>", and whose
\* subscription no off() of that (status, duration) pair and no destroy() has
\* removed, was called for that name in this tick if
\* now - userLastCameOnlineAt >= d.
C4_OnlineLevelTriggered ==
  TickDone =>
    \A sub \in live :
      (/\ IsCanonicalTimed(sub[1])
       /\ parseEventName(sub[1]).status = STATUS_ONLINE
       /\ currentStatus = STATUS_ONLINE
       /\ userLastCameOnlineAt # UNDEF
       /\ now - userLastCameOnlineAt >= parseEventName(sub[1]).duration) =>
        CountInvoked(invoked, sub[2], sub[1]) >= 1

\* C5 (as claimed): when a tick has done its work and the firing condition of
\* an entry of timedEvents holds, the event of its (status, duration) pair was
\* emitted once in this tick and every listener was called for it as many
\* times as it is registered for it.
C5_SingleEmission ==
  TickDone =>
    \A i \in DOMAIN timedEvents :
      LET name == TimedEventName(timedEvents[i].status, timedEvents[i].duration) IN
        WillEmitTimedEvent(timedEvents[i], currentStatus, idleTime,
                           userLastCameOnlineAt, now) =>
          /\ CountEmitted(emitted, name) = 1
          /\ \A l \in Listeners :
               CountInvoked(invoked, l, name) = CountIn(ListenersOf(listeners, name), l)

\* C6: while status-change and status:away / status:online are being emitted
\* the status is still the one the tick began with, every listener of these
\* events read that status, and once forEach is reached after a transition
\* the status is the new one.
C6_CommitAfterEmit ==
  /\ pc \in {"L131", "L136", "L142", "L147"} => currentStatus = tickStart
  /\ \A i \in DOMAIN invoked :
       invoked[i].event \in StatusEvents => invoked[i].seen = tickStart
  /\ (pc = "L152" /\ emitted # <<>> /\ emitted[1][1] = EvStatusChange) =>
       (currentStatus = emitted[1][2][2] /\ currentStatus # tickStart)

\* both emissions of a transition are over, a listener of each has run, and
\* setStatus has not been called yet
C6_Witness ==
  /\ pc = "L136"
  /\ pending = <<>>
  /\ \E i, j \in DOMAIN invoked :
       invoked[i].event = EvStatusChange /\ invoked[j].event = EvStatusAway

StatusModelUnchanged ==
  currentStatus' = currentStatus /\ userLastCameOnlineAt' = userLastCameOnlineAt

\* C7 (as claimed): from the return of destroy() until init(), wherever
\* destroy() was called from, no tick begins, no event is emitted, no listener
\* is called and the running code of the instance changes no state.
C7_InertAfterDestroy ==
  [][(inert /\ inert') =>
       /\ ~(pc = "idle" /\ pc' # "idle")
       /\ Len(emitted') <= Len(emitted)
       /\ Len(invoked') <= Len(invoked)
       /\ pc # "idle" => StatusModelUnchanged]_vars

\* C7 (amended): from the return of destroy() until init() no tick begins,
\* and while no tick is running nothing is emitted and no listener is called.
C7_NoNewTickAfterDestroy ==
  [][(inert /\ inert' /\ pc = "idle") =>
       (pc' = "idle" /\ emitted' = emitted /\ invoked' = invoked)]_vars

\* destroy() was called after an init(), a listener was subscribed since,
\* and time has passed
C7_Witness ==
  /\ inert
  /\ pc = "idle"
  /\ pollIntervalId # 0
  /\ TotalRegs > 0
  /\ now > 0

\* C8: as long as on() has not been called again after a destroy() that
\* removed subscriptions, timedEvents is empty, no listener is registered and
\* no tick calls a listener; and from init() until the next destroy() the
\* timer that init() started is running.
C8_CleanRestart ==
  /\ wiped => (timedEvents = <<>> /\ listeners = NoListeners /\ invoked = <<>>)
  /\ (pollIntervalId # 0 /\ ~inert) => activeTimers = {pollIntervalId}

\* subscriptions were removed by destroy(), and a tick of the timer started
\* since has emitted events and done its work
C8_Witness ==
  /\ wiped
  /\ TickDone
  /\ emitted # <<>>

\* C9: at most one interval timer of the instance is running.
C9_AtMostOneTimer == Cardinality(activeTimers) <= 1

\* init() was called while the timer of an earlier init() was known
C9_Witness == pollIntervalId = 2 /\ activeTimers = {2}

\* C10: userLastCameOnlineAt is defined exactly when the status is online,
\* and setStatus(s) leaves the status s.
C10_LastOnlineIffOnline ==
  /\ []((userLastCameOnlineAt # UNDEF) <=> (currentStatus = STATUS_ONLINE))
  /\ [][\A s \in Statuses : SetStatus(s) => currentStatus' = s]_vars

\* setStatus(STATUS_ONLINE) was called at a time after construction, on an
\* instance that never polled
C10_Witness ==
  /\ pollIntervalId = 0
  /\ now > 0
  /\ currentStatus = STATUS_ONLINE
  /\ userLastCameOnlineAt = now
\* C11: setStatus(v) with v outside {online, away} throws and leaves the
\* current status, userLastCameOnlineAt, the timed registry, the listener set
\* and the timer exactly as they were; the status is never an invalid value
C11_InvalidStatusRejected ==
  /\ [](currentStatus \in Statuses)
  /\ [][(raised' = "setStatus") =>
          (/\ currentStatus' = currentStatus
           /\ userLastCameOnlineAt' = userLastCameOnlineAt
           /\ timedEvents' = timedEvents
           /\ listeners' = listeners
           /\ pollIntervalId' = pollIntervalId
           /\ activeTimers' = activeTimers)]_vars

C11_Witness ==
  /\ raised = "setStatus"
  /\ currentStatus = STATUS_ONLINE
  /\ userLastCameOnlineAt = 0
  /\ now = 1
  /\ timedEvents # <<>>
  /\ activeTimers # {}

\* C12 as stated: userLastCameOnlineAt is set to the current time exactly in
\* the steps in which the status becomes online and cleared exactly in the
\* steps in which it becomes away; a step that does not change the status,
\* setStatus(s) with s the current status included, leaves it unchanged
C12_StampOnlyOnTransition ==
  [][/\ (currentStatus # STATUS_ONLINE /\ currentStatus' = STATUS_ONLINE)
          => userLastCameOnlineAt' = now
     /\ (currentStatus # STATUS_AWAY /\ currentStatus' = STATUS_AWAY)
          => userLastCameOnlineAt' = UNDEF
     /\ (currentStatus' = currentStatus)
          => userLastCameOnlineAt' = userLastCameOnlineAt]_vars

\* C12: every setStatus(online) sets userLastCameOnlineAt to the current time,
\* also when the status is online already, and every setStatus(away) clears
\* it; a tick changes it only in the step that commits a transition; no other
\* step changes it
C12_StampOnEverySetStatus ==
  [][/\ \A s \in Statuses :
          SetStatus(s) => userLastCameOnlineAt' = (IF s = STATUS_ONLINE THEN now ELSE UNDEF)
     /\ (currentStatus # STATUS_ONLINE /\ currentStatus' = STATUS_ONLINE)
          => userLastCameOnlineAt' = now
     /\ (currentStatus # STATUS_AWAY /\ currentStatus' = STATUS_AWAY)
          => userLastCameOnlineAt' = UNDEF
     /\ (pc # "idle" /\ currentStatus' = currentStatus)
          => userLastCameOnlineAt' = userLastCameOnlineAt
     /\ (\A s \in Statuses : ~SetStatus(s)) /\ currentStatus' = currentStatus
          => userLastCameOnlineAt' = userLastCameOnlineAt]_vars

\* setStatus(online) at time 1 on an instance that init() never started, so
\* that no tick ever ran
C12_Witness ==
  /\ pc = "idle"
  /\ pollIntervalId = 0
  /\ currentStatus = STATUS_ONLINE
  /\ now = 1
  /\ userLastCameOnlineAt = 1

\* C13 (as claimed): "away:0" is a timed name with duration 0, and when a tick
\* has done its work with the status away, on the tick of the transition as
\* on a later one, every listener subscribed to "away:0", whose subscription
\* no off() of ("away", 0) and no destroy() has removed, was called for
\* "away:0" in this tick and read the status away.
C13_AwayZeroFiresAtOnce ==
  /\ parseEventName(NameAway0) =
       [isTimedEvent |-> TRUE, status |-> STATUS_AWAY, duration |-> 0]
  /\ (TickDone /\ currentStatus = STATUS_AWAY) =>
       \A l \in Listeners :
         <<NameAway0, l>> \in live =>
           \E i \in DOMAIN invoked :
             /\ invoked[i].listener = l
             /\ invoked[i].event = NameAway0
             /\ invoked[i].seen = STATUS_AWAY

\* names that are not of the form <status>:<digits>
NonTimedNames == {EvStatusChange, EvStatusAway, EvStatusOnline, STATUS_ONLINE, STATUS_AWAY}

\* C14: parseEventName finds no timed event in "status-change", "status:away",
\* "status:online", "online" and "away"; on() and off() with a name that is
\* not timed, when they change the listeners of that name, leave timedEvents
\* unchanged and change no other name's listeners: on() appends the listener,
\* off() removes one instance (an off() that finds no instance changes nothing)
C14_NonTimedNamesKeepRegistry ==
  /\ \A n \in NonTimedNames : ~parseEventName(n).isTimedEvent
  /\ [][\A sub \in Subscriptions :
          (/\ listeners'[sub[1]] # listeners[sub[1]]
           /\ ~parseEventName(sub[1]).isTimedEvent
           /\ (On(sub[1], sub[2]) \/ Off(sub[1], sub[2])))
            => /\ timedEvents' = timedEvents
               /\ \A n \in DOMAIN listeners \ {sub[1]} : listeners'[n] = listeners[n]
               /\ On(sub[1], sub[2]) => listeners'[sub[1]] = Append(listeners[sub[1]], sub[2])
               /\ Off(sub[1], sub[2]) => Len(listeners'[sub[1]]) = Len(listeners[sub[1]]) - 1]_vars

\* a listener of "status:away" next to an entry of timedEvents
C14_Witness ==
  /\ pc = "idle"
  /\ Len(timedEvents) = 1
  /\ listeners[EvStatusAway] = <<"l1">>
  /\ TotalRegs = 2

\* the entries of te whose (status, duration) pair is not the one of info
OtherKeys(te, info) == SelectSeq(te, LAMBDA timedEvent : ~SameKey(timedEvent, info))

\* C15 (as claimed): a call off("<status>:<d>", listener) leaves the entries of
\* timedEvents with another (status, duration) pair as they were.
C15_OffKeepsOtherKeys ==
  [][\A sub \in Subscriptions :
       (/\ timedEvents' # timedEvents
        /\ parseEventName(sub[1]).isTimedEvent
        /\ Off(sub[1], sub[2]))
         => OtherKeys(timedEvents', parseEventName(sub[1]))
              = OtherKeys(timedEvents, parseEventName(sub[1]))]_vars

\* the listener is subscribed to the timed name: it is among the listeners of
\* the name and timedEvents has its entry
Subscribed(name, l) ==
  /\ CountIn(ListenersOf(listeners, name), l) >= 1
  /\ \E i \in DOMAIN timedEvents :
       /\ SameKey(timedEvents[i], parseEventName(name))
       /\ timedEvents[i].listener = l

\* C16 (as claimed): when a tick has done its work, every listener subscribed
\* to a name <status>:<digits>, leading zeros allowed, was called for that
\* name in this tick if the status is the parsed one and the duration
\* condition of the parsed number holds.
C16_LiteralNameInvoked ==
  TickDone =>
    \A sub \in Subscriptions :
      (/\ parseEventName(sub[1]).isTimedEvent
       /\ Subscribed(sub[1], sub[2])
       /\ WillEmitTimedEvent(parseEventName(sub[1]), currentStatus, idleTime,
                             userLastCameOnlineAt, now))
        => CountInvoked(invoked, sub[2], sub[1]) >= 1

\* C17: with listeners that do not change the status, a tick emits
\* status-change at most once, and when it has done its work the status is
\* away exactly if the idle time it sampled is at least inactivityDuration,
\* whatever the status was when it began; it emitted status-change exactly if
\* the status is not the one it began with
C17_OneTransitionPerTick ==
  /\ CountEmitted(emitted, EvStatusChange) <= 1
  /\ TickDone =>
       /\ (currentStatus = STATUS_AWAY <=> idleTime >= InactivityDuration)
       /\ (CountEmitted(emitted, EvStatusChange) = 1 <=> currentStatus # tickStart)

\* a tick that began away, sampled an idle time below inactivityDuration and
\* went online
C17_Witness ==
  /\ TickDone
  /\ tickStart = STATUS_AWAY
  /\ idleTime < InactivityDuration
  /\ currentStatus = STATUS_ONLINE
  /\ emitted[1] = <<EvStatusChange, <<STATUS_AWAY, STATUS_ONLINE>>>>

\* C18: every event of a tick that is not one of the three status events is
\* a timed event <s>:<d> emitted in forEach, after the transition if there
\* was one, with s the current status (so never the status the tick has just
\* left) and with the elapsed duration of that status at least d
C18_TimedOnlyWhenDue ==
  \A i \in DOMAIN emitted :
    emitted[i][1] \notin StatusEvents =>
      LET info == parseEventName(emitted[i][1]) IN
        /\ pc = "L152"
        /\ info.isTimedEvent
        /\ info.status = currentStatus
        /\ currentStatus = STATUS_AWAY => idleTime - InactivityDuration >= info.duration
        /\ currentStatus = STATUS_ONLINE =>
             (userLastCameOnlineAt # UNDEF /\ now - userLastCameOnlineAt >= info.duration)

\* a tick that went away and emitted "away:0" while an entry of timedEvents
\* is for an online event
C18_Witness ==
  /\ TickDone
  /\ tickStart = STATUS_ONLINE
  /\ currentStatus = STATUS_AWAY
  /\ CountEmitted(emitted, NameAway0) = 1
  /\ \E i \in DOMAIN timedEvents : timedEvents[i].status = STATUS_ONLINE
  /\ \A i \in DOMAIN emitted : parseEventName(emitted[i][1]).status # STATUS_ONLINE

\* C19: a tick that begins with neither guard true goes straight to forEach
\* without an event and without touching the status; forEach emits none of
\* the three status events and leaves currentStatus and userLastCameOnlineAt
\* unchanged; and no step of on(), off(), init() or destroy() changes
\* currentStatus or userLastCameOnlineAt
C19_StatusFrame ==
  [][/\ (/\ pc = "idle" /\ pc' # "idle"
          /\ ~AwayGuard(currentStatus, idleTime')
          /\ ~OnlineGuard(currentStatus, idleTime'))
         => (pc' = "L152" /\ emitted' = <<>> /\ StatusModelUnchanged)
     /\ pc = "L152"
         => /\ pc' \in {"L152", "idle"}
            /\ StatusModelUnchanged
            /\ Len(emitted') > Len(emitted)
                 => emitted'[Len(emitted')][1] \notin StatusEvents
     /\ ~StatusModelUnchanged
         => /\ ~InitCall
            /\ ~Destroy
            /\ \A sub \in Subscriptions : ~On(sub[1], sub[2]) /\ ~Off(sub[1], sub[2])]_vars

\* a tick that made no transition and emitted a timed event only
C19_Witness ==
  /\ TickDone
  /\ tickStart = currentStatus
  /\ emitted # <<>>
  /\ \A i \in DOMAIN emitted : emitted[i][1] \notin StatusEvents
  /\ currentStatus = STATUS_ONLINE
  /\ userLastCameOnlineAt = 0
  /\ now = 1

\* C20: when a listener called for status-change or for status:away /
\* status:online throws, pollStatus ends there: setStatus is not called, so
\* currentStatus and userLastCameOnlineAt are as before the tick, forEach does
\* not run and no timed event was emitted, and the guard that began the
\* transition still holds of the status and the idle time of this tick; and
\* every tick that begins with a guard true emits status-change for the
\* transition out of the current status, so a later tick with the same guard
\* true emits the same status-change again
C20_ThrowAbortsTransition ==
  [][/\ raised' = "transition"
         => /\ pc \in BeforeCommit
            /\ pc' = "idle"
            /\ StatusModelUnchanged
            /\ currentStatus = tickStart
            /\ iter' = <<>> /\ pending' = <<>>
            /\ \A i \in DOMAIN emitted : emitted[i][1] \in StatusEvents
            /\ \/ AwayGuard(currentStatus', idleTime)
               \/ OnlineGuard(currentStatus', idleTime)
     /\ (pc = "idle" /\ pc' # "idle" /\ AwayGuard(currentStatus, idleTime'))
         => emitted' = <<<<EvStatusChange, <<STATUS_ONLINE, STATUS_AWAY>>>>>>
     /\ (pc = "idle" /\ pc' # "idle" /\ OnlineGuard(currentStatus, idleTime'))
         => emitted' = <<<<EvStatusChange, <<STATUS_AWAY, STATUS_ONLINE>>>>>>]_vars

\* a listener of status:away has thrown: the status is still online, with the
\* time of coming online kept, and the timer is still running
C20_Witness ==
  /\ raised = "transition"
  /\ pc = "idle"
  /\ currentStatus = STATUS_ONLINE
  /\ userLastCameOnlineAt = 0
  /\ now = 1
  /\ listeners[EvStatusAway] # <<>>
  /\ listeners[EvStatusChange] = <<>>
  /\ activeTimers # {}

====
